---- MODULE Spec2Model ----
(***************************************************************************)
(* Model of the DecodeDetections layer                                     *)
(* (src/keras_layers/keras_layer_DecodeDetections.py).                     *)
(*                                                                         *)
(* Numbers are integers.  Confidences and the two thresholds are counted   *)
(* in tenths (8 is 0.8), coordinates in whole units.  The predicted size   *)
(* offsets are counted in units of ln 2, so that exp is exact: exp(k ln 2) *)
(* is 2^k.  Anchor sizes are even, so that 0.5 * w is exact.               *)
(***************************************************************************)
EXTENDS Integers, Sequences, FiniteSets

VARIABLES
    pc,                       \* "new", "raised", "ready", "running", "done"
    args,                     \* the arguments __init__ was called with
    self,                     \* the members of the layer
    y_pred,                   \* the decoded predictions tensor
    filtered_single_classes,  \* per batch item, the output of loop_over_classes
    classes_done,             \* the iterations of loop_over_classes that have run
    top_k_boxes,              \* the output of loop_over_batch
    items_done,               \* the iterations of loop_over_batch that have run
    output_tensor             \* what call returned

vars == <<pc, args, self, y_pred, filtered_single_classes, classes_done,
          top_k_boxes, items_done, output_tensor>>

(***************************************************************************)
(* Bounds of the model.                                                    *)
(***************************************************************************)
MaxBatch == 2       \* largest batch_size
MaxAnchors == 3     \* largest batch_size * n_boxes of an input tensor
MaxTopK == 3        \* largest top_k
MaxNms == 2         \* largest nms_max_output_size

\* An optional value: None, or Some(v), whose value is Val.
None == <<>>
Some(v) == <<v>>
Val(o) == o[1]
NoArgs == [backend |-> "none"]
NoSelf == [constructed |-> FALSE]

(***************************************************************************)
(* Small helpers on sequences.                                             *)
(***************************************************************************)
Range(s) == {s[i] : i \in 1..Len(s)}

RECURSIVE Flatten(_)
Flatten(ss) == IF ss = <<>> THEN <<>> ELSE Head(ss) \o Flatten(Tail(ss))

\* The tensor t with the rows at the positions idx, in that order.
Gather(t, idx) == [k \in 1..Len(idx) |-> t[idx[k]]]

\* Pad(t, n, row): n copies of row appended to t.
Pad(t, n, row) == t \o [k \in 1..n |-> row]

ZeroRow == <<0, 0, 0, 0, 0, 0>>

Min(a, b) == IF a <= b THEN a ELSE b
Max(a, b) == IF a >= b THEN a ELSE b

RECURSIVE Pow2(_)
Pow2(k) == IF k = 0 THEN 1 ELSE 2 * Pow2(k - 1)

\* exp of an argument counted in units of ln 2.
Exp(k) == Pow2(k)

(***************************************************************************)
(* The constructor's arguments.                                            *)
(***************************************************************************)
\* `backend` is what K.backend() answers when __init__ runs.
Backends == {"tensorflow", "theano"}
CoordFormats == {"centroids", "corners"}
ConfidenceThreshs == {0, 5, 8}
IouThresholds == {0, 5}
TopKs == 0..MaxTopK             \* 0 is outside the documented domain
NmsSizes == 1..MaxNms
ImgHeights == {None, Some(3)}
ImgWidths == {None, Some(2)}

ArgSets == [backend : Backends,
            confidence_thresh : ConfidenceThreshs,
            iou_threshold : IouThresholds,
            top_k : TopKs,
            nms_max_output_size : NmsSizes,
            coords : CoordFormats,
            normalize_coords : BOOLEAN,
            img_height : ImgHeights,
            img_width : ImgWidths]

(***************************************************************************)
(* The input tensors: shape (batch_size, n_boxes, n_classes + 12).         *)
(***************************************************************************)
\* Anchor geometry (cx_a, cy_a, w_a, h_a) of box slot i: squares of side 4
\* one unit apart, so that neighbours overlap with IoU 0.6, next-but-one
\* neighbours with IoU 1/3.
AnchorAt(i) == <<i + 1, 2, 4, 4>>
Variances == <<1, 1, 1, 1>>
\* Predicted offsets (dcx, dcy, dw, dh): none, or the width doubled.
Offsets == {<<0, 0, 0, 0>>, <<0, 0, 1, 0>>}
\* Class scores, background first, then two object classes: one of them
\* dominant (0.8), the other at 0.4.
ScoreVecs == {<<0, 8, 4>>, <<0, 4, 8>>}

RawRecords(i) == {s \o o \o AnchorAt(i) \o Variances : s \in ScoreVecs, o \in Offsets}

Shapes == {sh \in (1..MaxBatch) \X (1..MaxAnchors) : sh[1] * sh[2] <= MaxAnchors}

\* The images of n boxes: box slot i holds a record of anchor i.
RECURSIVE Images(_)
Images(n) == IF n = 0 THEN {<<>>}
             ELSE {Append(im, r) : im \in Images(n - 1), r \in RawRecords(n)}

InputTensors == UNION {[1..sh[1] -> Images(sh[2])] : sh \in Shapes}

(***************************************************************************)
(* 1. Box decoding (call, part 1).                                         *)
(***************************************************************************)
\* r[At(r, k)] is the Python r[-k].
At(r, k) == Len(r) - k + 1

\* Anchor box offsets to absolute centroid coordinates, then to corners.
DecodeCorners(r) ==
    LET cx == r[At(r, 12)] * r[At(r, 4)] * r[At(r, 6)] + r[At(r, 8)]
        cy == r[At(r, 11)] * r[At(r, 3)] * r[At(r, 5)] + r[At(r, 7)]
        w == Exp(r[At(r, 10)] * r[At(r, 2)]) * r[At(r, 6)]
        h == Exp(r[At(r, 9)] * r[At(r, 1)]) * r[At(r, 5)]
    IN <<cx - w \div 2, cy - h \div 2, cx + w \div 2, cy + h \div 2>>

normalized_coords(c, me) ==
    <<c[1] * Val(me.img_width), c[2] * Val(me.img_height),
      c[3] * Val(me.img_width), c[4] * Val(me.img_height)>>

non_normalized_coords(c, me) == c

\* The decoded record: the class confidences, then xmin, ymin, xmax, ymax.
DecodeRecord(r, me) ==
    LET c == DecodeCorners(r)
    IN SubSeq(r, 1, Len(r) - 12) \o
         (IF me.normalize_coords THEN normalized_coords(c, me) ELSE non_normalized_coords(c, me))

DecodeTensor(t, me) ==
    [b \in 1..Len(t) |-> [i \in 1..Len(t[b]) |-> DecodeRecord(t[b][i], me)]]

(***************************************************************************)
(* 2. Thresholding, per-class NMS, top-k.                                  *)
(***************************************************************************)
\* The positions of s from the highest value to the lowest, equal values in
\* the order of their positions (tf.nn.top_k, and the order in which
\* tf.image.non_max_suppression visits its candidates).
RECURSIVE DescendingFrom(_, _)
DescendingFrom(s, left) ==
    IF left = {} THEN <<>>
    ELSE LET i == CHOOSE x \in left :
                    \A y \in left : s[x] > s[y] \/ (s[x] = s[y] /\ x <= y)
         IN <<i>> \o DescendingFrom(s, left \ {i})

\* Variant of Descending with the sort direction reversed.
Descending_reversed(s) ==
    LET d == DescendingFrom(s, 1..Len(s))
    IN [k \in 1..Len(d) |-> d[Len(d) + 1 - k]]

Descending(s) == DescendingFrom(s, 1..Len(s))

\* Variant of TopKIndices that takes the first k positions as they stand.
TopKIndices_unsorted(values, k) == [i \in 1..k |-> i]

\* tf.nn.top_k(values, k, sorted=True).indices
TopKIndices(values, k) == SubSeq(Descending(values), 1, k)

\* The suppression test of tf.image.non_max_suppression on two boxes given
\* as (ymin, xmin, ymax, xmax): intersection over union above the threshold;
\* a box of no area overlaps nothing.
IOUAbove(bi, bj, iou_threshold) ==
    LET ymin_i == Min(bi[1], bi[3])
        xmin_i == Min(bi[2], bi[4])
        ymax_i == Max(bi[1], bi[3])
        xmax_i == Max(bi[2], bi[4])
        ymin_j == Min(bj[1], bj[3])
        xmin_j == Min(bj[2], bj[4])
        ymax_j == Max(bj[1], bj[3])
        xmax_j == Max(bj[2], bj[4])
        area_i == (ymax_i - ymin_i) * (xmax_i - xmin_i)
        area_j == (ymax_j - ymin_j) * (xmax_j - xmin_j)
        inter == Max(Min(ymax_i, ymax_j) - Max(ymin_i, ymin_j), 0)
                   * Max(Min(xmax_i, xmax_j) - Max(xmin_i, xmin_j), 0)
    IN IF area_i <= 0 \/ area_j <= 0 THEN FALSE
       ELSE 10 * inter > iou_threshold * (area_i + area_j - inter)

\* Variant of Survives in which nothing is ever suppressed.
Survives_always(boxes, i, selected, iou_threshold) == TRUE

\* Whether the selected boxes leave candidate i standing.
Survives(boxes, i, selected, iou_threshold) ==
    \A k \in 1..Len(selected) : ~IOUAbove(boxes[i], boxes[selected[k]], iou_threshold)

\* The greedy pass over the candidates in visiting order.
RECURSIVE NmsScan(_, _, _, _, _)
NmsScan(boxes, order, selected, max_output_size, iou_threshold) ==
    IF order = <<>> \/ Len(selected) >= max_output_size THEN selected
    ELSE LET i == Head(order)
         IN NmsScan(boxes, Tail(order),
                    IF Survives(boxes, i, selected, iou_threshold)
                      THEN Append(selected, i) ELSE selected,
                    max_output_size, iou_threshold)

\* Variant of non_max_suppression that visits the candidates in index order
\* instead of by descending score.
non_max_suppression_unsorted(boxes, scores, max_output_size, iou_threshold) ==
    NmsScan(boxes, [i \in 1..Len(scores) |-> i], <<>>, max_output_size, iou_threshold)

\* tf.image.non_max_suppression: the indices of the selected boxes.
non_max_suppression(boxes, scores, max_output_size, iou_threshold) ==
    NmsScan(boxes, Descending(scores), <<>>, max_output_size, iou_threshold)

\* Variant of threshold_met that compares with 0 instead of the threshold.
threshold_met_zero(row, me) == row[2] > 0

threshold_met(row, me) == row[2] > me.confidence_thresh

perform_nms(single_class, me) ==
    LET scores == [i \in 1..Len(single_class) |-> single_class[i][2]]
        boxes == [i \in 1..Len(single_class) |->
                    <<single_class[i][4], single_class[i][3],
                      single_class[i][6], single_class[i][5]>>]
        maxima_indices == non_max_suppression(boxes, scores, me.nms_max_output_size,
                                              me.iou_threshold)
    IN Gather(single_class, maxima_indices)

no_confident_predictions == <<ZeroRow>>

\* Variant of pad_single_class that leaves the padding out.
pad_single_class_unpadded(single_class_nms, me) == single_class_nms

\* `single_class_nms` made exactly nms_max_output_size rows long.
pad_single_class(single_class_nms, me) ==
    Pad(single_class_nms, me.nms_max_output_size - Len(single_class_nms), ZeroRow)

\* The rows of one class of one image: thresholded, suppressed, padded.
filter_single_class(batch_item, index, me) ==
    LET all == [i \in 1..Len(batch_item) |->
                  <<index, batch_item[i][index + 1]>> \o
                    SubSeq(batch_item[i], Len(batch_item[i]) - 3, Len(batch_item[i]))]
        single_class == SelectSeq(all, LAMBDA row : threshold_met(row, me))
        single_class_nms == IF Len(single_class) = 0 THEN no_confident_predictions
                            ELSE perform_nms(single_class, me)
    IN pad_single_class(single_class_nms, me)

Confidences(t) == [i \in 1..Len(t) |-> t[i][2]]

\* Variant of top_k that keeps the first top_k rows in concatenation order.
top_k_first_rows(filtered_predictions, me) == SubSeq(filtered_predictions, 1, me.top_k)

top_k(filtered_predictions, me) ==
    Gather(filtered_predictions, TopKIndices(Confidences(filtered_predictions), me.top_k))

\* Variant of pad_and_top_k that sorts without padding first.
pad_and_top_k_unpadded(filtered_predictions, me) ==
    Gather(filtered_predictions, Descending(Confidences(filtered_predictions)))

pad_and_top_k(filtered_predictions, me) ==
    LET padded_predictions == Pad(filtered_predictions,
                                  me.top_k - Len(filtered_predictions), ZeroRow)
    IN Gather(padded_predictions, TopKIndices(Confidences(padded_predictions), me.top_k))

\* The cond at the end of filter_predictions.
select_top_k(filtered_predictions, me) ==
    IF Len(filtered_predictions) >= me.top_k
      THEN top_k(filtered_predictions, me)
      ELSE pad_and_top_k(filtered_predictions, me)

\* Variant of StoreResult that stores the results in the order of completion.
StoreResult_in_completion_order(arr, i, n_done, v) == [arr EXCEPT ![n_done + 1] = v]

\* map_fn writes the result of element i at position i of its output.
StoreResult(arr, i, n_done, v) == [arr EXCEPT ![i] = v]

\* n_classes as the decoded tensor gives it; the class indices 1..n_classes-1.
n_classes_of(t) == Len(t[1][1]) - 4
class_indices(t) == 1..(n_classes_of(t) - 1)

(***************************************************************************)
(* The state machine.                                                      *)
(***************************************************************************)
Init ==
    /\ pc = "new"
    /\ args = NoArgs
    /\ self = NoSelf
    /\ y_pred = <<>>
    /\ filtered_single_classes = <<>>
    /\ classes_done = {}
    /\ top_k_boxes = <<>>
    /\ items_done = {}
    /\ output_tensor = <<>>

\* Variant of InitRaises without the check of the coordinate format.
InitRaises_no_coords_check(a) ==
    \/ a.backend # "tensorflow"
    \/ a.normalize_coords /\ (a.img_height = None \/ a.img_width = None)
    \/ a.img_height = None
    \/ a.img_width = None

\* Whether __init__ raises on the arguments a: the three checks at its top,
\* and the constants made of img_height and img_width, which TensorFlow
\* refuses to make of None.
InitRaises(a) ==
    \/ a.backend # "tensorflow"
    \/ a.normalize_coords /\ (a.img_height = None \/ a.img_width = None)
    \/ a.coords # "centroids"
    \/ a.img_height = None
    \/ a.img_width = None

\* The members __init__ sets.
Members(a) ==
    [constructed |-> TRUE,
     confidence_thresh |-> a.confidence_thresh,
     iou_threshold |-> a.iou_threshold,
     top_k |-> a.top_k,
     normalize_coords |-> a.normalize_coords,
     img_height |-> a.img_height,
     img_width |-> a.img_width,
     coords |-> a.coords,
     nms_max_output_size |-> a.nms_max_output_size]

\* DecodeDetections.__init__
Construct(a) ==
    /\ pc = "new"
    /\ args' = a
    /\ IF InitRaises(a)
         THEN pc' = "raised" /\ self' = self
         ELSE pc' = "ready" /\ self' = Members(a)
    /\ UNCHANGED <<y_pred, filtered_single_classes, classes_done, top_k_boxes,
                   items_done, output_tensor>>

\* DecodeDetections.call, up to the start of the two loops: the boxes are
\* decoded and nothing is filtered yet.
Call(t) ==
    /\ pc = "ready"
    /\ y_pred' = DecodeTensor(t, self)
    /\ filtered_single_classes' =
         [b \in 1..Len(t) |-> [c \in 1..(Len(t[1][1]) - 12 - 1) |-> <<>>]]
    /\ classes_done' = {}
    /\ top_k_boxes' = [b \in 1..Len(t) |-> <<>>]
    /\ items_done' = {}
    /\ pc' = "running"
    /\ UNCHANGED <<args, self, output_tensor>>

DoneOf(b) == {index \in class_indices(y_pred) : <<b, index>> \in classes_done}

\* One iteration of loop_over_classes for batch item b: class `index`.
FilterSingleClass(b, index) ==
    /\ pc = "running"
    /\ b \in 1..Len(y_pred)
    /\ index \in class_indices(y_pred)
    /\ <<b, index>> \notin classes_done
    /\ filtered_single_classes' =
         [filtered_single_classes EXCEPT
            ![b] = StoreResult(@, index, Cardinality(DoneOf(b)),
                               filter_single_class(y_pred[b], index, self))]
    /\ classes_done' = classes_done \cup {<<b, index>>}
    /\ UNCHANGED <<pc, args, self, y_pred, top_k_boxes, items_done, output_tensor>>

\* The rest of filter_predictions for batch item b, once its classes are
\* filtered: concatenation, then top-k or pad-and-top-k.
FilterPredictions(b) ==
    /\ pc = "running"
    /\ b \in 1..Len(y_pred)
    /\ b \notin items_done
    /\ DoneOf(b) = class_indices(y_pred)
    /\ top_k_boxes' = StoreResult(top_k_boxes, b, Cardinality(items_done),
                                  select_top_k(Flatten(filtered_single_classes[b]), self))
    /\ items_done' = items_done \cup {b}
    /\ UNCHANGED <<pc, args, self, y_pred, filtered_single_classes, classes_done,
                   output_tensor>>

\* call returns the stacked results of loop_over_batch.
Return ==
    /\ pc = "running"
    /\ items_done = 1..Len(y_pred)
    /\ output_tensor' = top_k_boxes
    /\ pc' = "done"
    /\ UNCHANGED <<args, self, y_pred, filtered_single_classes, classes_done,
                   top_k_boxes, items_done>>

Next ==
    \/ pc = "new" /\ \E a \in ArgSets : Construct(a)
    \/ pc = "ready" /\ \E t \in InputTensors : Call(t)
    \/ pc = "running" /\ \E b \in 1..Len(y_pred), index \in class_indices(y_pred) :
                            FilterSingleClass(b, index)
    \/ pc = "running" /\ \E b \in 1..Len(y_pred) : FilterPredictions(b)
    \/ Return

Spec == Init /\ [][Next]_vars

(***************************************************************************)
(* Vocabulary of the properties.                                           *)
(***************************************************************************)
Done == pc = "done"

IsSentinel(row) == row = ZeroRow
IsReal(row) == row # ZeroRow

\* How many rows of t equal v.
Count(t, v) == Cardinality({i \in 1..Len(t) : t[i] = v})

\* The concatenated per-class blocks of batch item b (once its classes ran).
Concatenated(b) == Flatten(filtered_single_classes[b])
RealRows(t) == {i \in 1..Len(t) : IsReal(t[i])}

\* Intersection and union area of two rows' corner boxes
\* (xmin, ymin, xmax, ymax at positions 3..6); a box of no area meets nothing.
BoxArea(r) == IF r[5] > r[3] /\ r[6] > r[4] THEN (r[5] - r[3]) * (r[6] - r[4]) ELSE 0
InterArea(r, q) ==
    IF BoxArea(r) = 0 \/ BoxArea(q) = 0 THEN 0
    ELSE Max(Min(r[5], q[5]) - Max(r[3], q[3]), 0) * Max(Min(r[6], q[6]) - Max(r[4], q[4]), 0)
UnionArea(r, q) == BoxArea(r) + BoxArea(q) - InterArea(r, q)
\* IoU(r, q) <= thr/10, and its negation.
IoUAtMost(r, q, thr) == 10 * InterArea(r, q) <= thr * UnionArea(r, q)
IoUExceeds(r, q, thr) == ~IoUAtMost(r, q, thr)

\* The candidates of class `index` in batch item b that pass the threshold.
Candidates(b, index) ==
    {<<index, y_pred[b][i][index + 1]>> \o SubSeq(y_pred[b][i], Len(y_pred[b][i]) - 3, Len(y_pred[b][i])) :
        i \in {j \in 1..Len(y_pred[b]) : y_pred[b][j][index + 1] > self.confidence_thresh}}

\* The documented domains of the numeric options.
NumericInDomain(a) ==
    /\ a.confidence_thresh >= 0 /\ a.confidence_thresh < 10
    /\ a.iou_threshold >= 0 /\ a.iou_threshold <= 10
    /\ a.top_k > 0
    /\ a.nms_max_output_size > 0

\* The whole pipeline run in index order, one class and one item at a time.
SequentialItem(batch_item, me) ==
    select_top_k(Flatten([index \in 1..(Len(batch_item[1]) - 4 - 1) |->
                            filter_single_class(batch_item, index, me)]), me)
SequentialDecode(t, me) == [b \in 1..Len(t) |-> SequentialItem(t[b], me)]

(***************************************************************************)
(* The properties.                                                         *)
(***************************************************************************)

\* C1: call returns exactly batch_size frame results, each of exactly top_k
\* rows of 6 values, whether the concatenated blocks hold at least top_k rows
\* or fewer.
C1_OutputShape ==
    Done =>
      /\ Len(output_tensor) = Len(y_pred)
      /\ \A b \in 1..Len(output_tensor) :
           /\ Len(output_tensor[b]) = self.top_k
           /\ \A k \in 1..Len(output_tensor[b]) : Len(output_tensor[b][k]) = 6

\* C1 witness: a batch of two was decoded through the padding branch.
C1_Witness ==
    /\ Done
    /\ Len(output_tensor) = 2
    /\ Len(Concatenated(1)) < self.top_k
    /\ \E k \in 1..self.top_k : IsReal(output_tensor[1][k])

\* C2: every output row of confidence above 0 has a confidence strictly
\* above confidence_thresh.
C2_AboveThreshold ==
    Done =>
      \A b \in 1..Len(output_tensor) : \A k \in 1..Len(output_tensor[b]) :
         output_tensor[b][k][2] > 0 => output_tensor[b][k][2] > self.confidence_thresh

\* C2 witness: an image with a score between 0 and the threshold and a score
\* above it; the latter is in the output.
C2_Witness ==
    /\ Done
    /\ self.confidence_thresh < 10
    /\ \E i \in 1..Len(y_pred[1]) : \E index \in class_indices(y_pred) :
          y_pred[1][i][index + 1] > 0 /\ y_pred[1][i][index + 1] <= self.confidence_thresh
    /\ \E k \in 1..Len(output_tensor[1]) : output_tensor[1][k][2] > 0

\* C3: two distinct rows of one frame result with the same class_id have
\* boxes whose IoU is at most iou_threshold.
C3_NoOverlapWithinClass ==
    Done =>
      \A b \in 1..Len(output_tensor) : \A k, l \in 1..Len(output_tensor[b]) :
         (k # l /\ output_tensor[b][k][1] = output_tensor[b][l][1]) =>
            IoUAtMost(output_tensor[b][k], output_tensor[b][l], self.iou_threshold)

\* C3 witness: two overlapping real rows of one class are output, and a third
\* candidate of that class, overlapping one of them too much, is not.
C3_Witness ==
    /\ Done
    /\ \E k, l \in 1..Len(output_tensor[1]) :
          /\ k # l
          /\ IsReal(output_tensor[1][k])
          /\ output_tensor[1][k][1] = output_tensor[1][l][1]
          /\ InterArea(output_tensor[1][k], output_tensor[1][l]) > 0
          /\ \E c \in Candidates(1, output_tensor[1][k][1]) :
                /\ c \notin Range(output_tensor[1])
                /\ IoUExceeds(c, output_tensor[1][k], self.iou_threshold)

\* C4: within each frame result the confidences do not increase with the row
\* index, and no zero-confidence row comes before a row of non-zero
\* confidence.
C4_SortedSentinelsLast ==
    Done =>
      \A b \in 1..Len(output_tensor) : \A k, l \in 1..Len(output_tensor[b]) :
         k < l =>
            /\ output_tensor[b][k][2] >= output_tensor[b][l][2]
            /\ output_tensor[b][k][2] = 0 => output_tensor[b][l][2] = 0

\* C4 witness: a frame result with two different non-zero confidences and a
\* sentinel, from blocks in which a lower confidence precedes a higher one.
C4_Witness ==
    /\ Done
    /\ \E k, l, m \in 1..Len(output_tensor[1]) :
          /\ output_tensor[1][k][2] > output_tensor[1][l][2]
          /\ output_tensor[1][l][2] > 0
          /\ IsSentinel(output_tensor[1][m])
    /\ \E i, j \in 1..Len(Concatenated(1)) :
          i < j /\ Concatenated(1)[i][2] < Concatenated(1)[j][2]

\* C5: when at least top_k real detections survive per-class NMS in an image,
\* its frame result holds no sentinel and consists of real detections of the
\* blocks, none of those left out having a higher confidence than one kept.
C5_TopKOfReal ==
    Done => \A b \in 1..Len(output_tensor) :
       Cardinality(RealRows(Concatenated(b))) >= self.top_k =>
          /\ Len(output_tensor[b]) = self.top_k
          /\ \A k \in 1..Len(output_tensor[b]) :
                /\ IsReal(output_tensor[b][k])
                /\ Count(output_tensor[b], output_tensor[b][k])
                     <= Count(Concatenated(b), output_tensor[b][k])
          /\ \A i \in RealRows(Concatenated(b)) :
                Count(output_tensor[b], Concatenated(b)[i]) < Count(Concatenated(b), Concatenated(b)[i])
                   => \A k \in 1..Len(output_tensor[b]) :
                         output_tensor[b][k][2] >= Concatenated(b)[i][2]

\* C5 witness: more real detections than top_k, of different confidences, so
\* that real detections are cut off.
C5_Witness ==
    /\ Done
    /\ self.top_k >= 2
    /\ Cardinality(RealRows(Concatenated(1))) > self.top_k
    /\ \E i, j \in RealRows(Concatenated(1)) :
          i < j /\ Concatenated(1)[i][2] < Concatenated(1)[j][2]

C7_OrderIndependent ==
    Done => output_tensor = SequentialDecode(y_pred, self)

\* C7 witness: a batch of two items, each with two different class blocks,
\* was decoded to two different frame results.
C7_Witness ==
    /\ Done
    /\ Len(output_tensor) = 2
    /\ output_tensor[1] # output_tensor[2]
    /\ \A b \in 1..2 : filtered_single_classes[b][1] # filtered_single_classes[b][2]

\* C8 as stated: for a configuration within the documented domains, whenever
\* top_k <= (n_classes - 1) * nms_max_output_size, every real detection of
\* the blocks is in the frame result.
C8_NoRealDroppedIfTopKFits ==
    Done => \A b \in 1..Len(output_tensor) :
       (/\ NumericInDomain(args)
        /\ self.top_k <= (n_classes_of(y_pred) - 1) * self.nms_max_output_size) =>
          \A i \in RealRows(Concatenated(b)) :
             Count(output_tensor[b], Concatenated(b)[i]) = Count(Concatenated(b), Concatenated(b)[i])

\* C8 amended: whenever the real detections of the blocks number at most
\* top_k, every one of them is in the frame result: only sentinels are
\* discarded.
C8_NoRealDroppedIfFewReal ==
    Done => \A b \in 1..Len(output_tensor) :
       Cardinality(RealRows(Concatenated(b))) <= self.top_k =>
          \A i \in RealRows(Concatenated(b)) :
             Count(output_tensor[b], Concatenated(b)[i]) = Count(Concatenated(b), Concatenated(b)[i])

\* C8 witness: top-k selection cut rows off, and there were real detections,
\* no more than top_k, a sentinel standing before one of them in the blocks.
C8_Witness ==
    /\ Done
    /\ Len(Concatenated(1)) > self.top_k
    /\ Cardinality(RealRows(Concatenated(1))) >= 2
    /\ Cardinality(RealRows(Concatenated(1))) <= self.top_k
    /\ \E i, j \in 1..Len(Concatenated(1)) :
          i < j /\ IsSentinel(Concatenated(1)[i]) /\ IsReal(Concatenated(1)[j])

\* C9: the block of every class is exactly nms_max_output_size rows: real
\* detections of that class first, all-zero rows after them; when no
\* candidate passes the threshold, all of it is zero rows.
C9_BlockLayout ==
    Done => \A t \in classes_done :
       LET block == filtered_single_classes[t[1]][t[2]]
       IN /\ Len(block) = self.nms_max_output_size
          /\ \E n \in 0..Len(block) :
                /\ \A k \in 1..n : block[k] \in Candidates(t[1], t[2])
                /\ \A k \in (n + 1)..Len(block) : block[k] = ZeroRow
          /\ Candidates(t[1], t[2]) = {} => \A k \in 1..Len(block) : block[k] = ZeroRow

\* C9 witness: one class of an image has no candidate above the threshold
\* and a block of two zero rows; another has a real detection, then a zero
\* row.
C9_Witness ==
    /\ Done
    /\ self.nms_max_output_size = 2
    /\ {<<1, 1>>, <<1, 2>>} \subseteq classes_done
    /\ Candidates(1, 1) = {}
    /\ filtered_single_classes[1][1] = <<ZeroRow, ZeroRow>>
    /\ IsReal(filtered_single_classes[1][2][1])
    /\ IsSentinel(filtered_single_classes[1][2][2])

\* C10: when a class's block holds fewer than nms_max_output_size real
\* detections, every candidate above the threshold that is not in it has an
\* IoU above iou_threshold with a detection of the block whose confidence is
\* at least its own; and the highest confidence among the candidates is
\* always in the block.
C10_NmsMaximal ==
    Done => \A t \in classes_done :
       LET block == filtered_single_classes[t[1]][t[2]]
           emitted == {block[k] : k \in RealRows(block)}
           cands == Candidates(t[1], t[2])
       IN /\ Cardinality(RealRows(block)) < self.nms_max_output_size =>
                \A c \in cands \ emitted :
                   \E e \in emitted : e[2] >= c[2] /\ IoUExceeds(c, e, self.iou_threshold)
          /\ \A c \in cands : \E e \in emitted : e[2] >= c[2]

\* C10 witness: three candidates of two different confidences pass the
\* threshold, one is emitted, which leaves room in the block, and the other
\* two are suppressed.
C10_Witness ==
    /\ Done
    /\ \E t \in classes_done :
          LET block == filtered_single_classes[t[1]][t[2]]
              emitted == {block[k] : k \in RealRows(block)}
              cands == Candidates(t[1], t[2])
          IN /\ Cardinality(emitted) = 1
             /\ self.nms_max_output_size > 1
             /\ Cardinality(cands) = 3
             /\ \E c, d \in cands : c[2] # d[2]

====
